---------------------------- MODULE Spec2Model ----------------------------
(***************************************************************************)
(* The server actions of app/lib/actions.ts: createUser, updateUser,       *)
(* deleteUser, createInvoice, updateInvoice, deleteInvoice, authenticate.  *)
(*                                                                         *)
(* A call is started by Call* (the synchronous prefix of the handler: the  *)
(* schema validation) and then advances one store round trip at a time;    *)
(* the synchronous code that follows a round trip (catch, finally,         *)
(* revalidatePath, redirect, return) belongs to the step of that round     *)
(* trip.  Several calls may be in flight at once, one per slot of Procs.   *)
(***************************************************************************)
EXTENDS Integers, Sequences, FiniteSets, TLC

(***************************************************************************)
(* Bounds of the model.                                                    *)
(***************************************************************************)
\* Number of calls that may be in flight at the same time.
NProcs == 2
\* Number of calls started in one behaviour.
MaxCalls == 2

Procs == 1..NProcs

(***************************************************************************)
(* JavaScript numbers.  The amount of an invoice is a JS number, an IEEE   *)
(* 754 binary64.  A positive finite number is kept as                      *)
(*   [kind |-> "num", neg, mant, exp]  with value mant * 2^exp and         *)
(*   2^52 <= mant < 2^53,                                                  *)
(* mant being a natural number written little-endian in base LimbBase      *)
(* (TLC's integers are 32 bits wide).  Zero is [kind |-> "zero"] and NaN   *)
(* is [kind |-> "nan"].                                                    *)
(***************************************************************************)
RECURSIVE Pow10(_)
Pow10(k) == IF k = 0 THEN 1 ELSE 10 * Pow10(k - 1)

LimbBase == Pow10(6)

\* 2^52 and 2^53, little-endian in base LimbBase.
TwoTo52 == <<370496, 599627, 4503>>
TwoTo53 == <<740992, 199254, 9007>>
\* 2^43: a quotient below it stays below 2^52 when its numerator is
\* multiplied by 2^9.
TwoTo43 == <<22208, 796093, 8>>

\* The limbs of a natural number n < 2^31.
RECURSIVE BigOfNat(_)
BigOfNat(n) == IF n = 0 THEN <<>> ELSE <<n % LimbBase>> \o BigOfNat(n \div LimbBase)

\* a * c + carry, for 0 <= c <= 1000 and 0 <= carry <= 1000.
RECURSIVE BigMulAdd(_, _, _)
BigMulAdd(a, c, carry) ==
  IF a = <<>> THEN BigOfNat(carry)
  ELSE LET v == Head(a) * c + carry
       IN  <<v % LimbBase>> \o BigMulAdd(Tail(a), c, v \div LimbBase)

\* Drops the leading (most significant) zero limbs.
RECURSIVE BigTrim(_)
BigTrim(a) ==
  IF a = <<>> THEN <<>>
  ELSE IF a[Len(a)] = 0 THEN BigTrim(SubSeq(a, 1, Len(a) - 1))
  ELSE a

BigMul(a, c) == BigTrim(BigMulAdd(a, c, 0))
BigSucc(a) == BigTrim(BigMulAdd(a, 1, 1))

\* Long division of a by 1 <= d <= 1000, from the most significant limb:
\* [q |-> a \div d, r |-> a % d].
RECURSIVE BigDivFrom(_, _, _, _)
BigDivFrom(a, d, i, rem) ==
  IF i = 0 THEN [q |-> <<>>, r |-> rem]
  ELSE LET v    == rem * LimbBase + a[i]
           rest == BigDivFrom(a, d, i - 1, v % d)
       IN  [q |-> Append(rest.q, v \div d), r |-> rest.r]

BigDivMod(a, d) ==
  LET res == BigDivFrom(a, d, Len(a), 0)
  IN  [q |-> BigTrim(res.q), r |-> res.r]

\* a < b, for trimmed a and b.
RECURSIVE BigLessFrom(_, _, _)
BigLessFrom(a, b, i) ==
  IF i = 0 THEN FALSE
  ELSE IF a[i] # b[i] THEN a[i] < b[i]
  ELSE BigLessFrom(a, b, i - 1)

BigLess(a, b) ==
  IF Len(a) # Len(b) THEN Len(a) < Len(b) ELSE BigLessFrom(a, b, Len(a))

BigIsOdd(a) == a # <<>> /\ Head(a) % 2 = 1

\* Round-to-nearest, ties-to-even, of q + (a fraction): roundUp says that
\* the fraction is above one half, or is one half and q is odd.  A mantissa
\* that reaches 2^53 is renormalised to 2^52 with the exponent raised.
RoundedNum(q, roundUp, exp) ==
  LET m == IF roundUp THEN BigSucc(q) ELSE q
  IN  IF m = TwoTo53
      THEN [kind |-> "num", neg |-> FALSE, mant |-> TwoTo52, exp |-> exp + 1]
      ELSE [kind |-> "num", neg |-> FALSE, mant |-> m, exp |-> exp]

\* The binary64 nearest to digits / 10^scale (digits > 0, scale <= 3): the
\* numerator x = digits * 2^s is scaled up (by 2^9 while that cannot
\* overshoot, then by 2) until x \div 10^scale has 53 bits, and the quotient
\* is rounded on the remainder.
RECURSIVE NearestFrom(_, _, _)
NearestFrom(x, scale, s) ==
  LET d  == Pow10(scale)
      dm == BigDivMod(x, d)
  IN  IF BigLess(dm.q, TwoTo43)
      THEN NearestFrom(BigMul(x, 512), scale, s + 9)
      ELSE IF BigLess(dm.q, TwoTo52)
      THEN NearestFrom(BigMul(x, 2), scale, s + 1)
      ELSE RoundedNum(dm.q,
                      2 * dm.r > d \/ (2 * dm.r = d /\ BigIsOdd(dm.q)),
                      0 - s)

\* A mantissa q >= 2^53 brought back to 53 bits by halving: half is the last
\* bit shifted out, sticky says that some bit shifted out before it was 1.
RECURSIVE ShiftRound(_, _, _, _)
ShiftRound(q, half, sticky, exp) ==
  IF BigLess(q, TwoTo53)
  THEN RoundedNum(q, half /\ (sticky \/ BigIsOdd(q)), exp)
  ELSE LET dm == BigDivMod(q, 2)
       IN  ShiftRound(dm.q, dm.r = 1, sticky \/ half, exp + 1)

\* x * c in binary64 arithmetic, for a JS number x and an integer 1 <= c <= 1000.
JsTimes(x, c) ==
  IF x.kind # "num" THEN x
  ELSE LET r == ShiftRound(BigMul(x.mant, c), FALSE, FALSE, x.exp)
       IN  [r EXCEPT !.neg = x.neg]

(***************************************************************************)
(* Form data.  A FormData is a function from the names of the fields that  *)
(* were submitted to their string values: formData.get(k) is null for a k  *)
(* outside its domain.  The email field holds the sequence of its         *)
(* characters.  The amount field holds a numeric literal, kept             *)
(* with its lexical structure: [text, kind |-> "decimal", neg, digits,     *)
(* scale] for (-)digits / 10^scale, kind "empty" for "" and kind "other"   *)
(* for text that is no number.                                             *)
(***************************************************************************)
Has(fd, k) == k \in DOMAIN fd

\* The text of an email field is kept as the sequence of its characters.
\* z.string().email() tests it against
\*   /^(?!\.)(?!.*\.\.)([A-Z0-9_'+\-\.]*)[A-Z0-9_+-]@([A-Z0-9][A-Z0-9\-]*\.)+[A-Z]{2,}$/i
Letters ==
  {"a", "b", "c", "d", "e", "f", "g", "h", "i", "j", "k", "l", "m",
   "n", "o", "p", "q", "r", "s", "t", "u", "v", "w", "x", "y", "z",
   "A", "B", "C", "D", "E", "F", "G", "H", "I", "J", "K", "L", "M",
   "N", "O", "P", "Q", "R", "S", "T", "U", "V", "W", "X", "Y", "Z"}
Digits == {"0", "1", "2", "3", "4", "5", "6", "7", "8", "9"}
AlphaNum == Letters \cup Digits

\* s[from..to] is ([A-Z0-9][A-Z0-9\-]*\.)+[A-Z]{2,}: labels that start with
\* a letter or digit, each closed by a dot, then two or more letters.
IsEmailDomain(s, from, to) ==
  \E dot \in (from + 1)..(to - 2) :
    /\ s[dot] = "."
    /\ \A i \in (dot + 1)..to : s[i] \in Letters
    /\ s[from] \in AlphaNum
    /\ \A i \in from..(dot - 1) :
         /\ s[i] \in AlphaNum \cup {"-", "."}
         /\ s[i] = "." => s[i + 1] \in AlphaNum

IsEmail(s) ==
  /\ Len(s) > 0
  /\ s[1] # "."
  /\ \A i \in 1..(Len(s) - 1) : ~(s[i] = "." /\ s[i + 1] = ".")
  /\ \E at \in 2..Len(s) :
       /\ s[at] = "@"
       /\ \A i \in 1..(at - 1) : s[i] \in AlphaNum \cup {"_", "'", "+", "-", "."}
       /\ s[at - 1] \in AlphaNum \cup {"_", "+", "-"}
       /\ IsEmailDomain(s, at + 1, Len(s))

\* Number(text) for the text of an amount field: "" gives 0, text that is
\* no number gives NaN, a decimal literal gives the nearest binary64.
Number(lit) ==
  CASE lit.kind = "empty" -> [kind |-> "zero"]
    [] lit.kind = "other" -> [kind |-> "nan"]
    [] OTHER ->
         IF lit.digits = 0 THEN [kind |-> "zero"]
         ELSE [NearestFrom(BigOfNat(lit.digits), lit.scale, 0) EXCEPT !.neg = lit.neg]

\* x > 0 for a JS number x.
JsPositive(x) == x.kind = "num" /\ ~x.neg

(***************************************************************************)
(* The inputs the calls are started with.                                  *)
(***************************************************************************)
UserForms ==
  { [name |-> "Alice Doe", email |-> <<"a", "@", "x", ".", "i", "o">>, password |-> "secret1"],
    [name |-> "Bobby Ray", email |-> <<"b", "@", "x", ".", "i", "o">>, password |-> "hunter22"],
    [name |-> "ab", email |-> <<"n", "o", "t", "-", "a", "n", "-", "e", "m", "a", "i", "l">>, password |-> "123"],
    [email |-> <<"b", "@", "x", ".", "i", "o">>, password |-> "secret1"] }

Dec(text, digits, scale) ==
  [text |-> text, kind |-> "decimal", neg |-> FALSE, digits |-> digits, scale |-> scale]

InvoiceForms ==
  { [customerId |-> "c1", amount |-> Dec("12.34", 1234, 2), status |-> "pending"],
    [customerId |-> "c1", amount |-> Dec("1.1", 11, 1), status |-> "paid"],
    [customerId |-> "c1", amount |-> Dec("0.005", 5, 3), status |-> "pending"],
    [customerId |-> "c1", amount |-> Dec("12.34", 1234, 2), status |-> "draft"],
    [customerId |-> "c1", amount |-> Dec("0", 0, 0), status |-> "paid"],
    [customerId |-> "c1", amount |-> [text |-> "abc", kind |-> "other"], status |-> "paid"],
    [amount |-> [text |-> "", kind |-> "empty"]] }

\* The amounts submitted, and Number of each (computed once).
AmountLiterals == {fd.amount : fd \in {f \in InvoiceForms : Has(f, "amount")}}
NumberOf == [lit \in AmountLiterals |-> Number(lit)]

\* The id the store gives to the n-th row inserted into a table.
RowId(table, n) == table \o "-" \o ToString(n)

\* The ids update and delete are called with.
UserIdArgs == {RowId("user", 1), RowId("user", 2)}
InvoiceIdArgs == {RowId("invoice", 1)}
NoId == ""

\* bcrypt salts, and the server's calendar dates.
Salts == {"salt1"}
Dates == {"2024-05-01"}
SaltRounds == 10

\* What signIn('credentials', formData) does: returns, or throws an
\* AuthError of some type, or throws an error of another class.
SignInResults ==
  { [class |-> "none", type |-> "none"],
    [class |-> "AuthError", type |-> "CredentialsSignin"],
    [class |-> "AuthError", type |-> "CallbackRouteError"],
    [class |-> "Error", type |-> "NEXT_REDIRECT"],
    [class |-> "TypeError", type |-> "fetch failed"] }

\* COUNT(*) reaches the handler as the driver hands it over: a number (the
\* type isEmailUnique declares) or the decimal text of a bigint.
CountTypes == {"number", "string"}

\* z.coerce.number() applies Number to the raw value; Number(null) is 0.
JsNumber(fd, k) == IF ~Has(fd, k) THEN [kind |-> "zero"] ELSE NumberOf[fd[k]]

(***************************************************************************)
(* userSchema (without id): the issues zod reports for each field.         *)
(***************************************************************************)
MinNameLen == 5
MinPasswordLen == 6

NameIssues(fd) ==
  IF ~Has(fd, "name") THEN <<"Expected string, received null">>
  ELSE (IF Len(fd.name) < MinNameLen
        THEN <<"Name must be at least 5 characters long">> ELSE <<>>)
       \o (IF Len(fd.name) < 1 THEN <<"Name cannot be empty">> ELSE <<>>)

EmailIssues(fd) ==
  IF ~Has(fd, "email") THEN <<"Expected string, received null">>
  ELSE (IF ~IsEmail(fd.email) THEN <<"Invalid email address">> ELSE <<>>)
       \o (IF Len(fd.email) < 1 THEN <<"Email cannot be empty">> ELSE <<>>)

PasswordIssues(fd) ==
  IF ~Has(fd, "password") THEN <<"Expected string, received null">>
  ELSE (IF Len(fd.password) < MinPasswordLen
        THEN <<"Password must be at least 6 characters long">> ELSE <<>>)
       \o (IF Len(fd.password) < 1 THEN <<"Password cannot be empty">> ELSE <<>>)

\* error.flatten().fieldErrors: an entry for each field with issues.
FieldErrors(issues) ==
  [k \in {f \in DOMAIN issues : issues[f] # <<>>} |-> issues[k]]

\* userSchema.omit({id}).safeParse({name, email, password}).
ParseUser(fd) ==
  LET issues == [name     |-> NameIssues(fd),
                 email    |-> EmailIssues(fd),
                 password |-> PasswordIssues(fd)]
      errors == FieldErrors(issues)
  IN  IF DOMAIN errors = {}
      THEN [success |-> TRUE,
            data |-> [name |-> fd.name, email |-> fd.email, password |-> fd.password]]
      ELSE [success |-> FALSE, errors |-> errors]

CreateUser(fd) == ParseUser(fd)
UpdateUser(fd) == ParseUser(fd)

(***************************************************************************)
(* FormSchema (without id and date).                                       *)
(***************************************************************************)
InvoiceStatuses == {"pending", "paid"}

CustomerIdIssues(fd) ==
  IF ~Has(fd, "customerId") THEN <<"Please select a customer.">> ELSE <<>>

AmountIssues(fd) ==
  LET n == JsNumber(fd, "amount")
  IN  IF n.kind = "nan" THEN <<"Expected number, received nan">>
      ELSE IF ~JsPositive(n) THEN <<"Please enter an amount greater than $0.">>
      ELSE <<>>

\* A variant of StatusIssues with status a plain z.string(): any text passes.
StatusIssuesAnyString(fd) ==
  IF ~Has(fd, "status") THEN <<"Please select an invoice status.">> ELSE <<>>

StatusIssues(fd) ==
  IF ~Has(fd, "status") THEN <<"Please select an invoice status.">>
  ELSE IF fd.status \notin InvoiceStatuses
       THEN <<"Invalid enum value. Expected 'pending' | 'paid', received '"
              \o fd.status \o "'">>
  ELSE <<>>

\* FormSchema.omit({id, date}).safeParse({customerId, amount, status}).
ParseInvoice(fd) ==
  LET issues == [customerId |-> CustomerIdIssues(fd),
                 amount     |-> AmountIssues(fd),
                 status     |-> StatusIssues(fd)]
      errors == FieldErrors(issues)
  IN  IF DOMAIN errors = {}
      THEN [success |-> TRUE,
            data |-> [customerId |-> fd.customerId,
                      amount     |-> JsNumber(fd, "amount"),
                      status     |-> fd.status]]
      ELSE [success |-> FALSE, errors |-> errors]

CreateInvoice(fd) == ParseInvoice(fd)
UpdateInvoice(fd) == ParseInvoice(fd)



(***************************************************************************)
(* State.                                                                  *)
(*   users, invoices   the rows of the two tables                          *)
(*   nextUserId, nextInvoiceId   the numbers of the next rows inserted     *)
(*   calls[p]          the call in flight in slot p: its handler (op),     *)
(*                     arguments (id, form), position (pc), local          *)
(*                     variables, the effects it has had so far, in order, *)
(*                     and what its caller observes (outcome)              *)
(*   completed         the call that ended last, as it ended               *)
(*   started           the number of calls started                         *)
(* An effect is <<"sql", statement, "ok" or "error", n>> (n: the count     *)
(* selected, or the number of rows returned or written),                   *)
(* <<"throw", message>> (an error raised inside the handler),              *)
(* <<"revalidatePath", path>> or <<"redirect", path>>.                     *)
(***************************************************************************)
VARIABLES users, invoices, nextUserId, nextInvoiceId, calls, completed, started

vars == <<users, invoices, nextUserId, nextInvoiceId, calls, completed, started>>

Pending == [kind |-> "pending"]
Return(v) == [kind |-> "return", value |-> v]
Throw(e) == [kind |-> "throw", error |-> e]
\* redirect() ends the handler by a NEXT_REDIRECT the framework acts on.
Redirect(path) == [kind |-> "redirect", path |-> path]
Error(msg) == [class |-> "Error", message |-> msg]

Sql(stmt, n) == <<"sql", stmt, "ok", n>>
SqlError(stmt) == <<"sql", stmt, "error", 0>>

NoLocals == [x \in {} |-> 0]

IdleCall ==
  [op |-> "none", pc |-> "idle", id |-> NoId, form |-> NoLocals,
   locals |-> NoLocals, effects |-> <<>>, outcome |-> Pending]

\* A call as it stands when its handler is entered.
NewCall(op, id, fd) ==
  [op |-> op, pc |-> "start", id |-> id, form |-> fd,
   locals |-> NoLocals, effects |-> <<>>, outcome |-> Pending]

\* The call c with its local variable k set to v.
Local(c, k, v) ==
  [c EXCEPT !.locals =
     [x \in DOMAIN c.locals \cup {k} |-> IF x = k THEN v ELSE c.locals[x]]]

\* The call c at position pc, after the effects es.
Step(c, pc, es) == [c EXCEPT !.pc = pc, !.effects = @ \o es]

\* The call c ended with the outcome o, after the effects es.
Finish(c, es, o) == [c EXCEPT !.pc = "done", !.effects = @ \o es, !.outcome = o]

\* A call starts in the first free slot (the slots are interchangeable).
CanStart(p) ==
  /\ started < MaxCalls
  /\ calls[p].pc = "idle"
  /\ \A q \in Procs : q < p => calls[q].pc # "idle"

\* The call of slot p becomes c: it stays in flight, or it has ended and
\* frees its slot.
Advance(p, c) ==
  /\ calls' = [calls EXCEPT ![p] = IF c.pc = "done" THEN IdleCall ELSE c]
  /\ completed' = IF c.pc = "done" THEN c ELSE completed

\* bcrypt.hash(password, 10) with the salt drawn for this call.
BcryptHash(password, salt) == <<"bcrypt", SaltRounds, salt, password>>

\* const amountInCents = amount * 100.
AmountInCents(amount) == JsTimes(amount, 100)

\* The tables as the first call finds them: empty, or holding rows that
\* earlier calls of createUser and createInvoice inserted one after the other.
SeedUsers ==
  LET u1 == [id |-> RowId("user", 1), name |-> "Alice Doe", email |-> <<"a", "@", "x", ".", "i", "o">>,
             password |-> BcryptHash("secret1", "salt1")]
      u2 == [id |-> RowId("user", 2), name |-> "Bobby Ray", email |-> <<"b", "@", "x", ".", "i", "o">>,
             password |-> BcryptHash("hunter22", "salt1")]
  IN  {{}, {u1}, {u1, u2}}

SeedInvoices ==
  LET i1 == [id |-> RowId("invoice", 1), customer_id |-> "c2",
             amount |-> AmountInCents(Number(Dec("5", 5, 0))),
             status |-> "paid", date |-> "2024-05-01"]
  IN  {{}, {i1}}

Init ==
  /\ users \in SeedUsers
  /\ invoices \in SeedInvoices
  /\ nextUserId = Cardinality(users) + 1
  /\ nextInvoiceId = Cardinality(invoices) + 1
  /\ calls = [p \in Procs |-> IdleCall]
  /\ completed = IdleCall
  /\ started = 0

(***************************************************************************)
(* JavaScript's view of the count isEmailUnique returns.                   *)
(***************************************************************************)
\* A variant of JsGreaterThanZero that is off by one: count > 1.
JsGreaterThanOne(count) == count.n > 1

\* count > 0: the text of a number is converted to the number.
JsGreaterThanZero(count) == count.n > 0

\* !count: 0 is falsy; a non-empty text, "0" included, is truthy.
JsNot(count) == count.type = "number" /\ count.n = 0

\* isEmailUnique: the count of the rows of users with this email.
IsEmailUnique(email, type) ==
  [type |-> type, n |-> Cardinality({r \in users : r.email = email})]

(***************************************************************************)
(* createUser                                                              *)
(***************************************************************************)
\* The catch block: every error of the try block becomes this one.
CreateUserFailed(c, es) ==
  Finish(c, es \o << <<"throw", "Failed to create user.">> >>,
         Throw(Error("Failed to create user.")))

createUser_start(p, fd) ==
  /\ CanStart(p)
  /\ LET c == NewCall("createUser", NoId, fd)
         v == CreateUser(fd)
     IN  Advance(p,
           IF ~v.success
           THEN Finish(c, <<>>, Return([errors  |-> v.errors,
                                        message |-> "Missing Fields. Failed to Create User."]))
           ELSE Step([c EXCEPT !.locals = v.data], "createUser_isEmailUnique", <<>>))
  /\ started' = started + 1
  /\ UNCHANGED <<users, invoices, nextUserId, nextInvoiceId>>

createUser_isEmailUnique(p) ==
  LET c == calls[p]
      q == "SELECT COUNT(*) FROM users WHERE email"
  IN  /\ c.pc = "createUser_isEmailUnique"
      /\ \/ Advance(p, CreateUserFailed(c, <<SqlError(q)>>))
         \/ \E type \in CountTypes :
              LET emailCount == IsEmailUnique(c.locals.email, type)
              IN  Advance(p,
                    IF JsGreaterThanZero(emailCount)
                    THEN CreateUserFailed(Local(c, "emailCount", emailCount),
                                          <<Sql(q, emailCount.n),
                                            <<"throw", "Email already exists">> >>)
                    ELSE Step(Local(c, "emailCount", emailCount),
                              "createUser_hash", <<Sql(q, emailCount.n)>>))
      /\ UNCHANGED <<users, invoices, nextUserId, nextInvoiceId, started>>

\* const hashedPassword = await bcrypt.hash(password, 10).
createUser_hash(p) ==
  LET c == calls[p]
  IN  /\ c.pc = "createUser_hash"
      /\ \E salt \in Salts :
           Advance(p, Step(Local(c, "hashedPassword",
                                 BcryptHash(c.locals.password, salt)),
                           "createUser_insert", <<>>))
      /\ UNCHANGED <<users, invoices, nextUserId, nextInvoiceId, started>>

createUser_insert(p) ==
  LET c == calls[p]
      q == "INSERT INTO users"
  IN  /\ c.pc = "createUser_insert"
      /\ \/ /\ Advance(p, CreateUserFailed(c, <<SqlError(q)>>))
            /\ UNCHANGED <<users, nextUserId>>
         \/ /\ users' = users \cup
                 {[id       |-> RowId("user", nextUserId),
                   name     |-> c.locals.name,
                   email    |-> c.locals.email,
                   password |-> c.locals.hashedPassword]}
            /\ nextUserId' = nextUserId + 1
            /\ Advance(p,
                 Finish(c, <<Sql(q, 1),
                             <<"revalidatePath", "/dashboard/users">>,
                             <<"redirect", "/dashboard/users">> >>,
                        Redirect("/dashboard/users")))
      /\ UNCHANGED <<invoices, nextInvoiceId, started>>

(***************************************************************************)
(* updateUser                                                              *)
(***************************************************************************)
\* The finally block, which runs however the try and catch blocks ended:
\* revalidatePath, then redirect, whose NEXT_REDIRECT replaces the pending
\* completion.
UpdateUserFinally(c, es) ==
  Finish(c, es \o << <<"revalidatePath", "/dashboard/users">>,
                     <<"redirect", "/dashboard/users">> >>,
         Redirect("/dashboard/users"))

\* A variant of UpdateUserFailed with the revalidatePath and redirect after
\* the try statement, as in createUser, instead of in a finally block.
UpdateUserFailedNoFinally(c, es) ==
  Finish(c, es \o << <<"throw", "Failed to update user.">> >>,
         Throw(Error("Failed to update user.")))

\* The catch block, followed by the finally block.
UpdateUserFailed(c, es) ==
  UpdateUserFinally(c, es \o << <<"throw", "Failed to update user.">> >>)

updateUser_start(p, id, fd) ==
  /\ CanStart(p)
  /\ LET c == NewCall("updateUser", id, fd)
         v == UpdateUser(fd)
     IN  Advance(p,
           IF ~v.success
           THEN Finish(c, <<>>, Return([errors  |-> v.errors,
                                        message |-> "Missing Fields. Failed to Update Invoice."]))
           ELSE Step([c EXCEPT !.locals = v.data], "updateUser_select", <<>>))
  /\ started' = started + 1
  /\ UNCHANGED <<users, invoices, nextUserId, nextInvoiceId>>

updateUser_select(p) ==
  LET c == calls[p]
      q == "SELECT * FROM users WHERE id"
      rows == {r \in users : r.id = c.id}
  IN  /\ c.pc = "updateUser_select"
      /\ \/ Advance(p, UpdateUserFailed(c, <<SqlError(q)>>))
         \/ Advance(p,
              IF rows = {}
              THEN UpdateUserFailed(c, <<Sql(q, 0), <<"throw", "User not found">> >>)
              ELSE LET existingUser == CHOOSE r \in rows : TRUE
                       c1 == Local(c, "existingUser", existingUser)
                   IN  IF c.locals.email # existingUser.email
                       THEN Step(c1, "updateUser_isEmailUnique", <<Sql(q, 1)>>)
                       ELSE Step(c1, "updateUser_hash", <<Sql(q, 1)>>))
      /\ UNCHANGED <<users, invoices, nextUserId, nextInvoiceId, started>>

updateUser_isEmailUnique(p) ==
  LET c == calls[p]
      q == "SELECT COUNT(*) FROM users WHERE email"
  IN  /\ c.pc = "updateUser_isEmailUnique"
      /\ \/ Advance(p, UpdateUserFailed(c, <<SqlError(q)>>))
         \/ \E type \in CountTypes :
              LET emailCount == IsEmailUnique(c.locals.email, type)
              IN  Advance(p,
                    IF JsNot(emailCount)
                    THEN UpdateUserFailed(c,
                                          <<Sql(q, emailCount.n),
                                            <<"throw", "Email already exists">> >>)
                    ELSE Step(c, "updateUser_hash", <<Sql(q, emailCount.n)>>))
      /\ UNCHANGED <<users, invoices, nextUserId, nextInvoiceId, started>>

\* const hashedPassword = await bcrypt.hash(password, 10).
updateUser_hash(p) ==
  LET c == calls[p]
  IN  /\ c.pc = "updateUser_hash"
      /\ \E salt \in Salts :
           Advance(p, Step(Local(c, "hashedPassword",
                                 BcryptHash(c.locals.password, salt)),
                           "updateUser_update", <<>>))
      /\ UNCHANGED <<users, invoices, nextUserId, nextInvoiceId, started>>

updateUser_update(p) ==
  LET c == calls[p]
      q == "UPDATE users"
      rows == {r \in users : r.id = c.id}
  IN  /\ c.pc = "updateUser_update"
      /\ \/ /\ Advance(p, UpdateUserFailed(c, <<SqlError(q)>>))
            /\ UNCHANGED users
         \/ /\ users' = (users \ rows) \cup
                 {[r EXCEPT !.name = c.locals.name,
                            !.email = c.locals.email,
                            !.password = c.locals.hashedPassword]
                    : r \in rows}
            /\ Advance(p,
                 UpdateUserFinally(c, <<Sql(q, Cardinality(rows))>>))
      /\ UNCHANGED <<invoices, nextUserId, nextInvoiceId, started>>

(***************************************************************************)
(* deleteUser                                                              *)
(***************************************************************************)
\* A variant of DeleteUserDone that reports a DELETE that matched no row as
\* a failure.
DeleteUserDoneIfFound(c, rows) ==
  IF rows = {}
  THEN Finish(c, <<Sql("DELETE FROM users", 0), <<"throw", "Failed to delete user.">> >>,
              Throw(Error("Failed to delete user.")))
  ELSE Finish(c, <<Sql("DELETE FROM users", Cardinality(rows)),
                   <<"revalidatePath", "/dashboard/users">> >>,
              Return([message |-> "Deleted User."]))

\* After the DELETE: revalidatePath and the confirmation, whatever the
\* rows it matched.
DeleteUserDone(c, rows) ==
  Finish(c, <<Sql("DELETE FROM users", Cardinality(rows)),
              <<"revalidatePath", "/dashboard/users">> >>,
         Return([message |-> "Deleted User."]))

deleteUser_start(p, id) ==
  /\ CanStart(p)
  /\ Advance(p,
       Step(NewCall("deleteUser", id, NoLocals), "deleteUser_delete", <<>>))
  /\ started' = started + 1
  /\ UNCHANGED <<users, invoices, nextUserId, nextInvoiceId>>

deleteUser_delete(p) ==
  LET c == calls[p]
      q == "DELETE FROM users"
      rows == {r \in users : r.id = c.id}
  IN  /\ c.pc = "deleteUser_delete"
      /\ \/ /\ Advance(p,
                 Finish(c, <<SqlError(q), <<"throw", "Failed to delete user.">> >>,
                        Throw(Error("Failed to delete user."))))
            /\ UNCHANGED users
         \/ /\ users' = users \ rows
            /\ Advance(p, DeleteUserDone(c, rows))
      /\ UNCHANGED <<invoices, nextUserId, nextInvoiceId, started>>


(***************************************************************************)
(* createInvoice, updateInvoice, deleteInvoice                             *)
(***************************************************************************)
createInvoice_start(p, fd) ==
  /\ CanStart(p)
  /\ LET c == NewCall("createInvoice", NoId, fd)
         v == CreateInvoice(fd)
     IN  \E date \in Dates :
           Advance(p,
             IF ~v.success
             THEN Finish(c, <<>>, Return([errors  |-> v.errors,
                                          message |-> "Missing Fields. Failed to Create Invoice."]))
             ELSE Step([c EXCEPT !.locals =
                          [customerId    |-> v.data.customerId,
                           amount        |-> v.data.amount,
                           status        |-> v.data.status,
                           amountInCents |-> AmountInCents(v.data.amount),
                           date          |-> date]],
                       "createInvoice_insert", <<>>))
  /\ started' = started + 1
  /\ UNCHANGED <<users, invoices, nextUserId, nextInvoiceId>>

createInvoice_insert(p) ==
  LET c == calls[p]
      q == "INSERT INTO invoices"
  IN  /\ c.pc = "createInvoice_insert"
      /\ \/ /\ Advance(p,
                 Finish(c, <<SqlError(q)>>,
                        Return([message |-> "Database Error: Failed to Create Invoice."])))
            /\ UNCHANGED <<invoices, nextInvoiceId>>
         \/ /\ invoices' = invoices \cup
                 {[id          |-> RowId("invoice", nextInvoiceId),
                   customer_id |-> c.locals.customerId,
                   amount      |-> c.locals.amountInCents,
                   status      |-> c.locals.status,
                   date        |-> c.locals.date]}
            /\ nextInvoiceId' = nextInvoiceId + 1
            /\ Advance(p,
                 Finish(c, <<Sql(q, 1),
                             <<"revalidatePath", "/dashboard/invoices">>,
                             <<"redirect", "/dashboard/invoices">> >>,
                        Redirect("/dashboard/invoices")))
      /\ UNCHANGED <<users, nextUserId, started>>

updateInvoice_start(p, id, fd) ==
  /\ CanStart(p)
  /\ LET c == NewCall("updateInvoice", id, fd)
         v == UpdateInvoice(fd)
     IN  Advance(p,
           IF ~v.success
           THEN Finish(c, <<>>, Return([errors  |-> v.errors,
                                        message |-> "Missing Fields. Failed to Update Invoice."]))
           ELSE Step([c EXCEPT !.locals =
                        [customerId    |-> v.data.customerId,
                         amount        |-> v.data.amount,
                         status        |-> v.data.status,
                         amountInCents |-> AmountInCents(v.data.amount)]],
                     "updateInvoice_update", <<>>))
  /\ started' = started + 1
  /\ UNCHANGED <<users, invoices, nextUserId, nextInvoiceId>>

updateInvoice_update(p) ==
  LET c == calls[p]
      q == "UPDATE invoices"
      rows == {r \in invoices : r.id = c.id}
  IN  /\ c.pc = "updateInvoice_update"
      /\ \/ /\ Advance(p,
                 Finish(c, <<SqlError(q)>>,
                        Return([message |-> "Database Error: Failed to Update Invoice."])))
            /\ UNCHANGED invoices
         \/ /\ invoices' = (invoices \ rows) \cup
                 {[r EXCEPT !.customer_id = c.locals.customerId,
                            !.amount = c.locals.amountInCents,
                            !.status = c.locals.status]
                    : r \in rows}
            /\ Advance(p,
                 Finish(c, <<Sql(q, Cardinality(rows)),
                             <<"revalidatePath", "/dashboard/invoices">>,
                             <<"redirect", "/dashboard/invoices">> >>,
                        Redirect("/dashboard/invoices")))
      /\ UNCHANGED <<users, nextUserId, nextInvoiceId, started>>

deleteInvoice_start(p, id) ==
  /\ CanStart(p)
  /\ Advance(p,
       Step(NewCall("deleteInvoice", id, NoLocals), "deleteInvoice_delete", <<>>))
  /\ started' = started + 1
  /\ UNCHANGED <<users, invoices, nextUserId, nextInvoiceId>>

deleteInvoice_delete(p) ==
  LET c == calls[p]
      q == "DELETE FROM invoices"
      rows == {r \in invoices : r.id = c.id}
  IN  /\ c.pc = "deleteInvoice_delete"
      /\ \/ /\ Advance(p,
                 Finish(c, <<SqlError(q)>>,
                        Return([message |-> "Database Error: Failed to Delete Invoice."])))
            /\ UNCHANGED invoices
         \/ /\ invoices' = invoices \ rows
            /\ Advance(p,
                 Finish(c, <<Sql(q, Cardinality(rows)),
                             <<"revalidatePath", "/dashboard/invoices">> >>,
                        Return([message |-> "Deleted Invoice."])))
      /\ UNCHANGED <<users, nextUserId, nextInvoiceId, started>>

(***************************************************************************)
(* authenticate                                                            *)
(***************************************************************************)
\* A variant of Authenticate without the final throw: every error is
\* answered by a message.
AuthenticateSwallow(r) ==
  IF r.class = "none" THEN [kind |-> "return"]
  ELSE IF r.class = "AuthError" /\ r.type = "CredentialsSignin"
       THEN Return("Invalid credentials.")
       ELSE Return("Something went wrong.")

\* What the caller of authenticate observes when signIn ended with r.
Authenticate(r) ==
  IF r.class = "none" THEN [kind |-> "return"]
  ELSE IF r.class = "AuthError"
       THEN IF r.type = "CredentialsSignin"
            THEN Return("Invalid credentials.")
            ELSE Return("Something went wrong.")
       ELSE Throw(r)

authenticate_start(p) ==
  /\ CanStart(p)
  /\ Advance(p,
       Step(NewCall("authenticate", NoId, NoLocals), "authenticate_signIn", <<>>))
  /\ started' = started + 1
  /\ UNCHANGED <<users, invoices, nextUserId, nextInvoiceId>>

authenticate_signIn(p) ==
  LET c == calls[p]
  IN  /\ c.pc = "authenticate_signIn"
      /\ \E r \in SignInResults :
           Advance(p,
             Finish([c EXCEPT !.locals = [signIn |-> r]],
                    << <<"signIn", r.class, r.type>> >>, Authenticate(r)))
      /\ UNCHANGED <<users, invoices, nextUserId, nextInvoiceId, started>>

(***************************************************************************)
(* Specifications.  SpecUser runs the handlers of the users table,         *)
(* SpecInvoice those of the invoices table and the sign-in; the two sets   *)
(* of handlers share no state.                                             *)
(***************************************************************************)
NextUser ==
  \E p \in Procs :
    \/ \E fd \in UserForms : createUser_start(p, fd)
    \/ createUser_isEmailUnique(p)
    \/ createUser_hash(p)
    \/ createUser_insert(p)
    \/ \E id \in UserIdArgs, fd \in UserForms : updateUser_start(p, id, fd)
    \/ updateUser_select(p)
    \/ updateUser_isEmailUnique(p)
    \/ updateUser_hash(p)
    \/ updateUser_update(p)
    \/ \E id \in UserIdArgs : deleteUser_start(p, id)
    \/ deleteUser_delete(p)

NextInvoice ==
  \E p \in Procs :
    \/ \E fd \in InvoiceForms : createInvoice_start(p, fd)
    \/ createInvoice_insert(p)
    \/ \E id \in InvoiceIdArgs, fd \in InvoiceForms : updateInvoice_start(p, id, fd)
    \/ updateInvoice_update(p)
    \/ \E id \in InvoiceIdArgs : deleteInvoice_start(p, id)
    \/ deleteInvoice_delete(p)
    \/ authenticate_start(p)
    \/ authenticate_signIn(p)

Next == NextUser \/ NextInvoice

Spec == Init /\ [][Next]_vars
\* The user handlers alone, on a store without invoices.
InitUser == Init /\ invoices = {}
SpecUser == InitUser /\ [][NextUser]_vars

\* The invoice handlers and authenticate alone, on a store without users.
InitInvoice == Init /\ users = {}
SpecInvoice == InitInvoice /\ [][NextInvoice]_vars


(***************************************************************************)
(* Properties.                                                             *)
(***************************************************************************)
Effects(c, kind) == {i \in 1..Len(c.effects) : c.effects[i][1] = kind}

\* The statements the call c has sent to the store.
Statements(c) == {c.effects[i][2] : i \in Effects(c, "sql")}

\* Whether a store call of c failed.
StoreFailed(c) == \E i \in Effects(c, "sql") : c.effects[i][3] = "error"

\* The counts the uniqueness query of c returned.
EmailCounts(c) ==
  {c.effects[i][4] : i \in {j \in Effects(c, "sql") :
      /\ c.effects[j][2] = "SELECT COUNT(*) FROM users WHERE email"
      /\ c.effects[j][3] = "ok"}}

\* Whether the JS number x is a whole number.
RECURSIVE EvenTimes(_, _)
EvenTimes(m, n) ==
  IF n = 0 THEN TRUE
  ELSE IF n >= 9
  THEN LET dm == BigDivMod(m, 512)
       IN  dm.r = 0 /\ EvenTimes(dm.q, n - 9)
  ELSE LET dm == BigDivMod(m, 2)
       IN  dm.r = 0 /\ EvenTimes(dm.q, n - 1)

JsIsInteger(x) ==
  CASE x.kind = "zero" -> TRUE
    [] x.kind = "nan"  -> FALSE
    [] OTHER           -> x.exp >= 0 \/ (x.exp > -53 /\ EvenTimes(x.mant, 0 - x.exp))

\* a * 2^n.
RECURSIVE BigShift(_, _)
BigShift(a, n) ==
  IF n = 0 THEN a
  ELSE IF n >= 9 THEN BigShift(BigMul(a, 512), n - 9)
  ELSE BigShift(BigMul(a, 2), n - 1)

\* Whether the JS number x is exactly the rational num / den (num, den > 0).
JsEqualsRatio(x, num, den) ==
  /\ x.kind = "num"
  /\ ~x.neg
  /\ IF x.exp >= 0
     THEN BigMul(BigShift(x.mant, x.exp), den) = BigOfNat(num)
     ELSE BigMul(x.mant, den) = BigShift(BigOfNat(num), 0 - x.exp)

\* The constraints of section 3 of the specification on the input of a user
\* handler and of an invoice handler.
UserInputViolates(fd) ==
  \/ ~Has(fd, "name") \/ ~Has(fd, "email") \/ ~Has(fd, "password")
  \/ Len(fd.name) < 5
  \/ ~IsEmail(fd.email)
  \/ Len(fd.password) < 6

InvoiceInputViolates(fd) ==
  \/ ~Has(fd, "customerId") \/ ~Has(fd, "amount") \/ ~Has(fd, "status")
  \/ fd.amount.kind # "decimal"
  \/ fd.amount.neg
  \/ fd.amount.digits = 0
  \/ fd.status \notin {"pending", "paid"}

InputViolates(c) ==
  IF c.op \in {"createUser", "updateUser"} THEN UserInputViolates(c.form)
  ELSE InvoiceInputViolates(c.form)

\* C1: no two rows of the users table have the same email.
C1_EmailsUnique ==
  \A r1, r2 \in users : r1.email = r2.email => r1.id = r2.id

\* C2: a createUser whose email is held by a row when its uniqueness check
\* runs ends at that step: the users table is unchanged, the caller observes
\* the error 'Failed to create user.', nothing was inserted, revalidated or
\* redirected.
C2_DuplicateCreateFails ==
  [][\A p \in Procs :
       ( /\ calls[p].pc = "createUser_isEmailUnique"
         /\ \E r \in users : r.email = calls[p].locals.email
         /\ calls'[p] # calls[p] )
       => /\ users' = users
          /\ calls'[p] = IdleCall
          /\ completed'.op = "createUser"
          /\ completed'.form = calls[p].form
          /\ completed'.outcome = Throw(Error("Failed to create user."))
          /\ "INSERT INTO users" \notin Statements(completed')
          /\ Effects(completed', "revalidatePath") = {}
          /\ Effects(completed', "redirect") = {}]_vars

C2_Witness ==
  /\ completed.op = "createUser"
  /\ \E n \in EmailCounts(completed) : n > 0
  /\ completed.outcome.kind = "throw"

\* C3: an updateUser whose id matches no row reports a not-found failure to
\* its caller and does not redirect.
C3_NotFoundReported ==
  ( /\ completed.op = "updateUser"
    /\ \E i \in Effects(completed, "sql") :
         completed.effects[i] = Sql("SELECT * FROM users WHERE id", 0) )
  => /\ completed.outcome.kind = "throw"
     /\ Effects(completed, "redirect") = {}

\* C4: an updateUser that changes the email fails without an UPDATE when a
\* row holds the submitted email, and issues the UPDATE when no row holds it.
C4_UniquenessRecheck ==
  completed.op = "updateUser" =>
    \A n \in EmailCounts(completed) :
      /\ n > 0 => "UPDATE users" \notin Statements(completed)
      /\ n = 0 => "UPDATE users" \in Statements(completed)

\* C5: createUser, updateUser, createInvoice and updateInvoice answer an
\* input that violates the schema by a result with field errors and a
\* message, without any store call, revalidation or redirect.
C5_InvalidInputRejected ==
  /\ \A p \in Procs :
       calls[p].op \in {"createUser", "updateUser", "createInvoice", "updateInvoice"}
         => ~InputViolates(calls[p])
  /\ ( /\ completed.op \in {"createUser", "updateUser", "createInvoice", "updateInvoice"}
       /\ InputViolates(completed) )
     => /\ completed.effects = <<>>
        /\ completed.outcome.kind = "return"
        /\ DOMAIN completed.outcome.value = {"errors", "message"}
        /\ DOMAIN completed.outcome.value.errors # {}
        /\ completed.outcome.value.message # ""

C5_Witness ==
  /\ completed.op = "createInvoice"
  /\ Has(completed.form, "status")
  /\ completed.form.status = "draft"
  /\ completed.outcome.kind = "return"
  /\ "status" \in DOMAIN completed.outcome.value.errors

\* C6: a deleteUser or deleteInvoice whose id matches no row when its DELETE
\* runs leaves the table unchanged, invalidates the listing route, returns
\* its confirmation message and does not redirect.
C6_DeleteIdempotent ==
  [][\A p \in Procs :
       /\ ( /\ calls[p].pc = "deleteUser_delete"
            /\ ~\E r \in users : r.id = calls[p].id
            /\ calls'[p] # calls[p]
            /\ ~StoreFailed(completed') )
          => /\ users' = users
             /\ completed'.effects =
                  <<Sql("DELETE FROM users", 0), <<"revalidatePath", "/dashboard/users">> >>
             /\ completed'.outcome = Return([message |-> "Deleted User."])
       /\ ( /\ calls[p].pc = "deleteInvoice_delete"
            /\ ~\E r \in invoices : r.id = calls[p].id
            /\ calls'[p] # calls[p]
            /\ ~StoreFailed(completed') )
          => /\ invoices' = invoices
             /\ completed'.effects =
                  <<Sql("DELETE FROM invoices", 0), <<"revalidatePath", "/dashboard/invoices">> >>
             /\ completed'.outcome = Return([message |-> "Deleted Invoice."])]_vars

\* A deleteUser of an id the store had given to a row, deleted since.
C6_Witness ==
  /\ completed.op = "deleteUser"
  /\ \E n \in 1..(nextUserId - 1) : completed.id = RowId("user", n)
  /\ completed.effects[1] = Sql("DELETE FROM users", 0)
  /\ completed.outcome.kind = "return"

\* C7: authenticate answers a CredentialsSignin AuthError by 'Invalid
\* credentials.', any other AuthError by 'Something went wrong.', throws any
\* other error as it caught it, and returns nothing after a sign-in that
\* succeeded.
C7_AuthenticateClassifies ==
  completed.op = "authenticate" =>
    LET r == completed.locals.signIn
        o == completed.outcome
    IN  CASE r.class = "none" -> o.kind = "return" /\ DOMAIN o = {"kind"}
          [] r.class = "AuthError" /\ r.type = "CredentialsSignin" ->
               o.kind = "return" /\ DOMAIN o = {"kind", "value"}
                 /\ o.value = "Invalid credentials."
          [] r.class = "AuthError" /\ r.type # "CredentialsSignin" ->
               o.kind = "return" /\ DOMAIN o = {"kind", "value"}
                 /\ o.value = "Something went wrong."
          [] OTHER -> o.kind = "throw" /\ o.error = r

C7_Witness ==
  /\ completed.op = "authenticate"
  /\ completed.locals.signIn.class = "TypeError"
  /\ completed.outcome.kind = "throw"

\* C8: the amount createInvoice and updateInvoice pass to the store is a
\* whole number, the submitted amount times 100.
C8_MinorUnits ==
  \A c \in {calls[p] : p \in Procs} \cup {completed} :
    ( /\ c.op \in {"createInvoice", "updateInvoice"}
      /\ "amountInCents" \in DOMAIN c.locals )
    => /\ JsIsInteger(c.locals.amountInCents)
       /\ JsEqualsRatio(c.locals.amountInCents,
                        c.form.amount.digits * 100, Pow10(c.form.amount.scale))

\* C9: when a store call fails, an invoice handler returns a message without
\* revalidation or redirect, and a user handler makes its caller observe a
\* thrown error.
C9_StoreFailureOutcome ==
  StoreFailed(completed) =>
    IF completed.op \in {"createInvoice", "updateInvoice", "deleteInvoice"}
    THEN /\ completed.outcome.kind = "return"
         /\ DOMAIN completed.outcome.value = {"message"}
         /\ Effects(completed, "revalidatePath") = {}
         /\ Effects(completed, "redirect") = {}
    ELSE /\ completed.outcome.kind = "throw"
         /\ completed.outcome.error.message \in
              {"Failed to create user.", "Failed to update user.", "Failed to delete user."}

\* C10: an updateUser whose input passed validation ends by revalidatePath
\* and then redirect of /dashboard/users, the redirect being its last effect
\* and what its caller observes, also when the catch block raised its error.
C10_UpdateUserAlwaysRedirects ==
  ( /\ completed.op = "updateUser"
    /\ ~UserInputViolates(completed.form) )
  => LET n == Len(completed.effects)
     IN  /\ n >= 3
         /\ completed.effects[n - 1] = <<"revalidatePath", "/dashboard/users">>
         /\ completed.effects[n] = <<"redirect", "/dashboard/users">>
         /\ Effects(completed, "redirect") = {n}
         /\ Effects(completed, "revalidatePath") = {n - 1}
         /\ completed.outcome = Redirect("/dashboard/users")

C10_Witness ==
  /\ completed.op = "updateUser"
  /\ \E i \in Effects(completed, "throw") :
       completed.effects[i] = <<"throw", "Failed to update user.">>
  /\ completed.outcome.kind = "redirect"

=============================================================================
